---- MODULE Spec2Model ----
(***************************************************************************)
(* The payment retry / dead-letter engine of the e-commerce platform:      *)
(* the payment service's three consumers (payments.process,                *)
(* payments.retry, payments.dead), its manual retry endpoint, the order    *)
(* service's submission of payment work items, and the acknowledge/reject  *)
(* policy of the shared RabbitMQ client that all of them run under.        *)
(*                                                                         *)
(* Each consumer callback and each HTTP handler is one action: the         *)
(* handler's stores, its publishes and the final ack/nack of               *)
(* RabbitMQClient.consume together.  The broker's reaction to a nack       *)
(* (requeue at the head of the queue, or dead-lettering) is part of the    *)
(* same action.                                                            *)
(*                                                                         *)
(* The second half models RabbitMQClient itself: connect() with its three  *)
(* awaited calls, the connection and channel event handlers, the           *)
(* reconnect timer, close(), the guarded operations, and start() of the    *)
(* payment service, each awaited call being one step of the event loop.    *)
(***************************************************************************)
EXTENDS Integers, Sequences, FiniteSets, TLC

VARIABLES
    dlxTarget,        \* queue that payments.process dead-letters into
    qProcess,         \* payments.process, head first
    qRetry,           \* payments.retry, head first
    qDead,            \* payments.dead, head first
    payments,         \* Map orderId -> successful payment record
    failedPayments,   \* Map orderId -> terminal failure record
    seen,             \* per order: attempt counts read by successive executions
    origin,           \* per order: how the work item first entered payments.process
    everOk,           \* per order: the gateway call has succeeded at least once
    manual,           \* per order: the manual retry endpoint has re-submitted it
    dead,             \* per order: reached DEAD and not manually re-submitted since
    last              \* what the most recent handler did

vars == <<dlxTarget, qProcess, qRetry, qDead, payments, failedPayments,
          seen, origin, everOk, manual, dead, last>>

(* One RabbitMQClient instance and the service process that owns it *)
VARIABLES
    conns,            \* every connection amqp.connect has returned: "open", "failing", "closed"
    chans,            \* the channel created on each connection: "none", "open", "closed"
    connection,       \* this.connection (NoConn: null)
    channel,          \* this.channel: the connection whose channel it is (NoConn: null)
    isConnected,      \* this.isConnected
    reconnectTimer,   \* this.reconnectTimer is set
    timers,           \* reconnect timers armed and not yet fired or cleared
    consumers,        \* keys of this.consumers
    attempts,         \* connect() calls in progress: who called, where it waits, its connection
    svc,              \* start(): "init", "connecting", "starting", "running", "exited"
    faults,           \* failures the broker and the network may still cause
    closed,           \* close() has been called
    lastConnect,      \* how the most recently finished connect() ended: "none", "ok", "failed"
    eventSince,       \* a connection error, a connection close or close() came after it
    cl,               \* what the most recent client call or event did
    consumerChan      \* per queue: the channel its registered consumer is active on
                      \* (NoConn: the broker has no such consumer)

clientVars == <<conns, chans, connection, channel, isConnected, reconnectTimer,
                timers, consumers, attempts, svc, faults, closed, lastConnect,
                eventSince, cl, consumerChan>>

(* One established channel with its publishers and consumers *)
VARIABLES
    ioChan,           \* the channel: "open", "closed"
    bufFull,          \* its last write answered false and no 'drain' came since
    pubs,             \* per publish / sendToQueue call: where it stands, messages handed over
    tags,             \* per consumer tag: its queue, its noAck option, "active" at the broker or not
    registry,         \* this.consumers: queue -> consumer tag
    handling,         \* per consumer tag: the deliveries whose callback is running
    io                \* what the most recent publish, delivery or registry call did

ioVars == <<ioChan, bufFull, pubs, tags, registry, handling, io>>

(* What the client hands to the channel and what the broker holds *)
VARIABLES
    sent,             \* the most recent publish / sendToQueue / publishWithHeaders call:
                      \* its arguments, the properties given to the channel, its result
    exchanges,        \* broker: exchange name -> its declaration, or Undeclared
    amqpQueues,       \* broker: queue name -> its declaration, or Undeclared
    bindings,         \* broker: set of <<queue, exchange, routing key>>
    decl,             \* the most recent assertExchange / assertQueue / bindQueue call
    called,           \* publish / sendToQueue calls in the order they were made
    wire              \* the messages in the order the channel sends them to the broker

brokerVars == <<sent, exchanges, amqpQueues, bindings, decl, called, wire>>

----------------------------------------------------------------------------
(* Bounds of the model *)

\* executions of processPayment recorded per order
MaxExec == 5
\* messages of all orders held in the three queues together
MaxMsgs == 3
\* largest x-retry-count header a message found on payments.process carries
MaxHdr == 4

(* Program constants *)

\* config.retry.maxAttempts
MaxAttempts == 3

\* a message whose properties carry no x-retry-count header
NoHdr == -1

Orders == {"o1", "o2"}

paymentsProcess == "payments.process"
paymentsRetry == "payments.retry"
paymentsDead == "payments.dead"

Hdrs == {NoHdr} \cup (0 .. MaxHdr)

\* undefined retryCount field of a failedPayments record
NoCount == -1

----------------------------------------------------------------------------
(* Messages *)

Msg(o, h, r) == [order |-> o, hdr |-> h, redelivered |-> r]

\* (msg.properties.headers && msg.properties.headers['x-retry-count']) || 0
RetryCount(msg) == IF msg.hdr = NoHdr THEN 0 ELSE msg.hdr

\* new Map()
EmptyMap == [x \in {} |-> 0]

\* Map.set
MapSet(m, k, v) == [x \in (DOMAIN m) \cup {k} |-> IF x = k THEN v ELSE m[x]]

\* Map.delete
MapDelete(m, k) == [x \in (DOMAIN m) \ {k} |-> m[x]]

Live == Len(qProcess) + Len(qRetry) + Len(qDead)

Idle == [op |-> "none", order |-> "none", attempt |-> 0, redelivered |-> FALSE,
         gw |-> "none", threw |-> FALSE, acked |-> FALSE, nacked |-> FALSE,
         requeue |-> FALSE, events |-> {}, pubThrew |-> FALSE,
         storedPayment |-> FALSE,
         storedFailed |-> FALSE, sent |-> {}, status |-> 0]

----------------------------------------------------------------------------
Init ==
    /\ dlxTarget \in {paymentsRetry, paymentsDead}
    /\ \E b \in {<<>>} \cup {<<Msg(o, h, FALSE)>> : o \in Orders, h \in Hdrs} :
          /\ qProcess = b
          /\ origin = [o \in Orders |->
                         IF b # <<>> /\ b[1].order = o THEN "backlog" ELSE "none"]
    /\ qRetry = <<>>
    /\ qDead = <<>>
    /\ payments = EmptyMap
    /\ failedPayments = EmptyMap
    /\ seen = [o \in Orders |-> <<>>]
    /\ everOk = [o \in Orders |-> FALSE]
    /\ manual = [o \in Orders |-> FALSE]
    /\ dead = [o \in Orders |-> FALSE]
    /\ last = Idle

\* processOrder: the payment request is sent to payments.process without headers
SubmitOrder(o) ==
    /\ origin[o] = "none"
    /\ Live < MaxMsgs
    /\ qProcess' = Append(qProcess, Msg(o, NoHdr, FALSE))
    /\ origin' = [origin EXCEPT ![o] = "fresh"]
    /\ last' = [Idle EXCEPT !.op = "processOrder", !.order = o,
                            !.sent = {[queue |-> paymentsProcess, hdr |-> NoHdr]}]
    /\ UNCHANGED <<dlxTarget, qRetry, qDead, payments, failedPayments,
                   seen, everOk, manual, dead>>
    /\ UNCHANGED <<clientVars, ioVars, brokerVars>>

----------------------------------------------------------------------------
(* RabbitMQClient.consume: acknowledge / reject policy *)

\* consume always nacks every failure with requeue=true
NackRequeue_Always(msg) == TRUE

\* const requeue = !msg.fields.redelivered
NackRequeue(msg) == ~msg.redelivered

\* consume never acknowledges
Acks_Never(threw) == FALSE

\* if (!defaultOptions.noAck) this.channel.ack(msg), reached when the handler
\* returned; start() registers its consumers with the default noAck: false
Acks(threw) == ~threw

\* the broker puts a message rejected with requeue=true back, flagged redelivered
Requeued(msg) == [msg EXCEPT !.redelivered = TRUE]

\* the broker re-publishes a dead-lettered or expired message with its headers
DeadLettered(msg) == [msg EXCEPT !.redelivered = FALSE]

----------------------------------------------------------------------------
(* processPayment *)

\* the k-th rabbitMQ.publish call of one handler run raises when the channel
\* stopped accepting messages at call number failAt (0: it never does)
Throws(failAt, k) == failAt # 0 /\ k >= failAt

\* the try block: gateway call, payments.set, the two follow-up publishes
TryBlock(gw, failAt) ==
    IF gw = "fail"
    THEN [threw |-> TRUE, stored |-> FALSE, events |-> {}, calls |-> 0]
    ELSE IF Throws(failAt, 1)
    THEN [threw |-> TRUE, stored |-> TRUE, events |-> {}, calls |-> 1]
    ELSE IF Throws(failAt, 2)
    THEN [threw |-> TRUE, stored |-> TRUE, events |-> {"payment.success"}, calls |-> 2]
    ELSE [threw |-> FALSE, stored |-> TRUE,
          events |-> {"payment.success", "shipping.create"}, calls |-> 2]

\* retryCount < config.retry.maxAttempts
ShouldRetry(retryCount) == retryCount < MaxAttempts

\* the whole handler: what it stored, what it published, whether it raised
processPayment(msg, gw, failAt) ==
    LET retryCount == RetryCount(msg)
        t == TryBlock(gw, failAt)
    IN  IF ~t.threw
        THEN [threw |-> FALSE, attempt |-> retryCount, storedPayment |-> TRUE,
              storedFailed |-> FALSE, events |-> t.events, pubThrew |-> FALSE]
        ELSE IF ShouldRetry(retryCount)
        THEN [threw |-> TRUE, attempt |-> retryCount, storedPayment |-> t.stored,
              storedFailed |-> FALSE, events |-> t.events, pubThrew |-> t.stored]
        ELSE [threw |-> TRUE, attempt |-> retryCount, storedPayment |-> t.stored,
              storedFailed |-> TRUE,
              events |-> t.events \cup
                         (IF Throws(failAt, t.calls + 1) THEN {} ELSE {"payment.failed"}),
              pubThrew |-> t.stored \/ Throws(failAt, t.calls + 1)]

\* delivery of the head of payments.process to the consumer registered in start()
ProcessDelivery ==
    /\ qProcess # <<>>
    /\ Len(seen[Head(qProcess).order]) < MaxExec
    /\ \E gw \in {"ok", "fail"}, failAt \in 0 .. 3 :
        LET msg == Head(qProcess)
            o == msg.order
            r == processPayment(msg, gw, failAt)
            requeue == NackRequeue(msg)
        IN  /\ seen' = [seen EXCEPT ![o] = Append(@, r.attempt)]
            /\ everOk' = [everOk EXCEPT ![o] = @ \/ gw = "ok"]
            /\ payments' = IF r.storedPayment
                           THEN MapSet(payments, o, [retryCount |-> r.attempt])
                           ELSE payments
            /\ failedPayments' = IF r.storedFailed
                                 THEN MapSet(failedPayments, o,
                                             [retryCount |-> r.attempt, error |-> TRUE])
                                 ELSE failedPayments
            /\ dead' = [dead EXCEPT ![o] = @ \/ r.storedFailed]
            /\ qProcess' = IF r.threw /\ requeue
                           THEN <<Requeued(msg)>> \o Tail(qProcess)
                           ELSE Tail(qProcess)
            /\ qRetry' = IF r.threw /\ ~requeue /\ dlxTarget = paymentsRetry
                         THEN Append(qRetry, DeadLettered(msg))
                         ELSE qRetry
            /\ qDead' = IF r.threw /\ ~requeue /\ dlxTarget = paymentsDead
                        THEN Append(qDead, DeadLettered(msg))
                        ELSE qDead
            /\ last' = [Idle EXCEPT !.op = "processPayment", !.order = o,
                                    !.attempt = r.attempt,
                                    !.redelivered = msg.redelivered,
                                    !.gw = gw, !.threw = r.threw,
                                    !.acked = Acks(r.threw), !.nacked = r.threw,
                                    !.requeue = r.threw /\ requeue,
                                    !.events = r.events,
                                    !.pubThrew = r.pubThrew,
                                    !.storedPayment = r.storedPayment,
                                    !.storedFailed = r.storedFailed]
    /\ UNCHANGED <<dlxTarget, origin, manual>>
    /\ UNCHANGED <<clientVars, ioVars, brokerVars>>

----------------------------------------------------------------------------
(* payments.retry *)

\* the consumer start() registers on payments.retry logs the message and
\* returns, so consume acknowledges it; handleRetry, which would send the
\* item to payments.process with x-retry-count + 1, is registered nowhere
RetryDelivery ==
    /\ qRetry # <<>>
    /\ qRetry' = Tail(qRetry)
    /\ last' = [Idle EXCEPT !.op = "retryConsumer", !.order = Head(qRetry).order,
                            !.attempt = RetryCount(Head(qRetry)),
                            !.redelivered = Head(qRetry).redelivered,
                            !.acked = Acks(FALSE)]
    /\ UNCHANGED <<dlxTarget, qProcess, qDead, payments, failedPayments,
                   seen, origin, everOk, manual, dead>>
    /\ UNCHANGED <<clientVars, ioVars, brokerVars>>

\* the message at the head of payments.retry outlives its time-to-live and
\* the broker routes it back to payments.process
RetryExpire ==
    /\ qRetry # <<>>
    /\ qRetry' = Tail(qRetry)
    /\ qProcess' = Append(qProcess, DeadLettered(Head(qRetry)))
    /\ last' = [Idle EXCEPT !.op = "ttlExpiry", !.order = Head(qRetry).order,
                            !.attempt = RetryCount(Head(qRetry))]
    /\ UNCHANGED <<dlxTarget, qDead, payments, failedPayments,
                   seen, origin, everOk, manual, dead>>
    /\ UNCHANGED <<clientVars, ioVars, brokerVars>>

----------------------------------------------------------------------------
(* payments.dead *)

\* failedPayments.set(orderId, {...deadData, deadLetteredAt, reason})
handleDeadLetter(fp, msg) ==
    MapSet(fp, msg.order, [retryCount |-> NoCount, error |-> FALSE])

DeadDelivery ==
    /\ qDead # <<>>
    /\ qDead' = Tail(qDead)
    /\ failedPayments' = handleDeadLetter(failedPayments, Head(qDead))
    /\ last' = [Idle EXCEPT !.op = "handleDeadLetter", !.order = Head(qDead).order,
                            !.attempt = RetryCount(Head(qDead)),
                            !.redelivered = Head(qDead).redelivered,
                            !.acked = Acks(FALSE), !.storedFailed = TRUE]
    /\ UNCHANGED <<dlxTarget, qProcess, qRetry, payments,
                   seen, origin, everOk, manual, dead>>
    /\ UNCHANGED <<clientVars, ioVars, brokerVars>>

----------------------------------------------------------------------------
(* POST /payments/:orderId/retry *)

\* the endpoint re-submits with the count the item died at instead of resetting
ManualRetryHdr_Keeps == MaxAttempts

\* headers: { 'x-retry-count': 0 }
ManualRetryHdr == 0

\* the endpoint forgets to delete the entry
RemoveFailed_Forgets(fp, o) == fp

\* failedPayments.delete(req.params.orderId)
RemoveFailed(fp, o) == MapDelete(fp, o)

ManualRetry(o) ==
    /\ Live < MaxMsgs
    /\ \E sendOk \in BOOLEAN :
        IF o \notin DOMAIN failedPayments
        THEN /\ last' = [Idle EXCEPT !.op = "manualRetry", !.order = o, !.status = 404]
             /\ UNCHANGED <<qProcess, failedPayments, manual, dead>>
        ELSE IF ~sendOk
        THEN /\ last' = [Idle EXCEPT !.op = "manualRetry", !.order = o,
                                     !.threw = TRUE, !.status = 500]
             /\ UNCHANGED <<qProcess, failedPayments, manual, dead>>
        ELSE /\ qProcess' = Append(qProcess, Msg(o, ManualRetryHdr, FALSE))
             /\ failedPayments' = RemoveFailed(failedPayments, o)
             /\ manual' = [manual EXCEPT ![o] = TRUE]
             /\ dead' = [dead EXCEPT ![o] = FALSE]
             /\ last' = [Idle EXCEPT !.op = "manualRetry", !.order = o,
                                     !.sent = {[queue |-> paymentsProcess,
                                                hdr |-> ManualRetryHdr]},
                                     !.status = 200]
    /\ UNCHANGED <<dlxTarget, qRetry, qDead, payments, seen, origin, everOk>>
    /\ UNCHANGED <<clientVars, ioVars, brokerVars>>

----------------------------------------------------------------------------
Next ==
    \/ \E o \in Orders : SubmitOrder(o)
    \/ ProcessDelivery
    \/ RetryDelivery
    \/ RetryExpire
    \/ DeadDelivery
    \/ \E o \in Orders : ManualRetry(o)

----------------------------------------------------------------------------
(* RabbitMQClient: connection supervisor *)

\* failures (refused connects, drops, channel errors) the environment may cause
MaxFaults == 1

\* this.connection = null, this.channel = null
NoConn == 0

\* connections one run can open: each fault leads to at most two further
\* connect() calls, close() to one more
MaxConns == 2 * MaxFaults + 3

ConnIds == 1 .. MaxConns

\* the queues start() consumes
Queues == {paymentsProcess, paymentsRetry, paymentsDead}

ClientOps == {"assertExchange", "assertQueue", "bindQueue", "publish",
              "sendToQueue", "consume"}

ClientIdle == [op |-> "none", outcome |-> "none", reached |-> "none", sched |-> "none"]

\* return this.isConnected && this.channel !== null
isHealthy == isConnected /\ channel # NoConn

\* the state of the channel object this.channel refers to
ChannelState == IF channel = NoConn THEN "null" ELSE chans[channel]

RemoveAt(q, i) == SubSeq(q, 1, i - 1) \o SubSeq(q, i + 1, Len(q))

\* the smallest connection id not handed out yet
FreshConn == CHOOSE c \in ConnIds :
                 conns[c] = "unused" /\ \A d \in ConnIds : d < c => conns[d] # "unused"

ClientInit ==
    /\ conns = [c \in ConnIds |-> "unused"]
    /\ chans = [c \in ConnIds |-> "none"]
    /\ connection = NoConn
    /\ channel = NoConn
    /\ isConnected = FALSE
    /\ reconnectTimer = FALSE
    /\ timers = 0
    /\ consumers = {}
    /\ attempts = <<>>
    /\ svc = "init"
    /\ faults = MaxFaults
    /\ closed = FALSE
    /\ lastConnect = "none"
    /\ eventSince = FALSE
    /\ cl = ClientIdle
    /\ consumerChan = [q \in Queues |-> NoConn]

\* scheduleReconnect() without its guard: every call arms a timer
scheduleReconnect_Unguarded == reconnectTimer' = TRUE /\ timers' = timers + 1

\* scheduleReconnect() that never arms a timer
scheduleReconnect_Never == UNCHANGED <<reconnectTimer, timers>>

\* what a scheduleReconnect() call does: "pending" when it returns at the
\* guard, "armed" when it sets a timer
Scheduled == IF reconnectTimer THEN "pending" ELSE "armed"

\* scheduleReconnect(): a no-op while this.reconnectTimer is set
scheduleReconnect ==
    IF reconnectTimer
    THEN UNCHANGED <<reconnectTimer, timers>>
    ELSE reconnectTimer' = TRUE /\ timers' = timers + 1

\* the operations without their guard
ChannelMissing_Never == FALSE

\* if (!this.channel) throw new Error('Channel not initialized')
ChannelMissing == channel = NoConn

\* a closed connection that neither this.connection, this.channel nor a
\* running connect() refers to is garbage: its slot is free again
\* a consumer stays active at the broker while the client has not
\* unregistered it and the channel it was registered on is open
ConsumersFollow ==
    consumerChan' = [q \in Queues |->
                        IF /\ q \in consumers'
                           /\ consumerChan[q] # NoConn
                           /\ chans'[consumerChan[q]] = "open"
                        THEN consumerChan[q] ELSE NoConn]

Collect(cs, ch, cn, chn, att) ==
    LET ref == {cn, chn} \cup {att[i].conn : i \in DOMAIN att}
        gone(c) == cs[c] = "closed" /\ c \notin ref
    IN  /\ conns' = [c \in ConnIds |-> IF gone(c) THEN "unused" ELSE cs[c]]
        /\ chans' = [c \in ConnIds |-> IF gone(c) THEN "none" ELSE ch[c]]
        /\ connection' = cn
        /\ channel' = chn
        /\ attempts' = att

\* connect() returns: true after prefetch, false from the catch block
Finish(i, ok) ==
    /\ Collect(conns, chans, connection, channel, RemoveAt(attempts, i))
    /\ lastConnect' = IF ok THEN "ok" ELSE "failed"
    /\ eventSince' = FALSE
    /\ svc' = IF attempts[i].owner = "start" THEN "starting" ELSE svc
    /\ cl' = IF ok THEN ClientIdle ELSE [ClientIdle EXCEPT !.sched = Scheduled]

\* start(): await rabbitMQ.connect()
ConnectCall ==
    /\ svc = "init"
    /\ svc' = "connecting"
    /\ attempts' = Append(attempts, [owner |-> "start", pc |-> "connect", conn |-> NoConn])
    /\ cl' = ClientIdle
    /\ UNCHANGED <<conns, chans, connection, channel, isConnected, reconnectTimer,
                   timers, consumers, faults, closed, lastConnect, eventSince>>
    /\ ConsumersFollow
    /\ UNCHANGED <<vars, ioVars, brokerVars>>

\* amqp.connect resolves: this.connection is replaced, its handlers attached,
\* createChannel is called
AmqpConnectOk(i) ==
    /\ svc # "exited"
    /\ attempts[i].pc = "connect"
    /\ \E c \in ConnIds : conns[c] = "unused"
    /\ LET c == FreshConn
       IN  Collect([conns EXCEPT ![c] = "open"], chans, c, channel,
                   [attempts EXCEPT ![i].pc = "channel", ![i].conn = c])
    /\ cl' = ClientIdle
    /\ UNCHANGED <<isConnected, reconnectTimer, timers, consumers,
                   svc, faults, closed, lastConnect, eventSince>>
    /\ ConsumersFollow
    /\ UNCHANGED <<vars, ioVars, brokerVars>>

\* amqp.connect rejects: catch block
AmqpConnectFail(i) ==
    /\ svc # "exited"
    /\ attempts[i].pc = "connect"
    /\ faults > 0
    /\ faults' = faults - 1
    /\ scheduleReconnect
    /\ Finish(i, FALSE)
    /\ UNCHANGED <<isConnected, consumers, closed>>
    /\ ConsumersFollow
    /\ UNCHANGED <<vars, ioVars, brokerVars>>

\* createChannel resolves and the client is reported connected at once
CreateChannelOk_Connected(i) ==
    /\ svc # "exited"
    /\ attempts[i].pc = "channel"
    /\ conns[attempts[i].conn] = "open"
    /\ Collect(conns, [chans EXCEPT ![attempts[i].conn] = "open"], connection,
               attempts[i].conn, [attempts EXCEPT ![i].pc = "prefetch"])
    /\ isConnected' = TRUE
    /\ cl' = ClientIdle
    /\ UNCHANGED <<reconnectTimer, timers, consumers,
                   svc, faults, closed, lastConnect, eventSince>>
    /\ ConsumersFollow
    /\ UNCHANGED <<vars, ioVars, brokerVars>>

\* createChannel resolves: this.channel is replaced, prefetch(1) is called
CreateChannelOk(i) ==
    /\ svc # "exited"
    /\ attempts[i].pc = "channel"
    /\ conns[attempts[i].conn] = "open"
    /\ Collect(conns, [chans EXCEPT ![attempts[i].conn] = "open"], connection,
               attempts[i].conn, [attempts EXCEPT ![i].pc = "prefetch"])
    /\ cl' = ClientIdle
    /\ UNCHANGED <<isConnected, reconnectTimer, timers, consumers,
                   svc, faults, closed, lastConnect, eventSince>>
    /\ ConsumersFollow
    /\ UNCHANGED <<vars, ioVars, brokerVars>>

\* createChannel rejects (always when its connection is gone): catch block
CreateChannelFail(i) ==
    /\ svc # "exited"
    /\ attempts[i].pc = "channel"
    /\ conns[attempts[i].conn] # "open" \/ faults > 0
    /\ faults' = IF conns[attempts[i].conn] = "open" THEN faults - 1 ELSE faults
    /\ scheduleReconnect
    /\ Finish(i, FALSE)
    /\ UNCHANGED <<isConnected, consumers, closed>>
    /\ ConsumersFollow
    /\ UNCHANGED <<vars, ioVars, brokerVars>>

\* prefetch resolves: this.isConnected = true; return true
PrefetchOk(i) ==
    /\ svc # "exited"
    /\ attempts[i].pc = "prefetch"
    /\ chans[attempts[i].conn] = "open"
    /\ isConnected' = TRUE
    /\ Finish(i, TRUE)
    /\ UNCHANGED <<reconnectTimer, timers, consumers, faults, closed>>
    /\ ConsumersFollow
    /\ UNCHANGED <<vars, ioVars, brokerVars>>

\* prefetch rejects (always when its channel is gone): catch block
PrefetchFail(i) ==
    /\ svc # "exited"
    /\ attempts[i].pc = "prefetch"
    /\ chans[attempts[i].conn] # "open" \/ faults > 0
    /\ faults' = IF chans[attempts[i].conn] = "open" THEN faults - 1 ELSE faults
    /\ scheduleReconnect
    /\ Finish(i, FALSE)
    /\ UNCHANGED <<isConnected, consumers, closed>>
    /\ ConsumersFollow
    /\ UNCHANGED <<vars, ioVars, brokerVars>>

\* connection.on('error'): this.isConnected = false; the library closes the
\* connection afterwards
ConnError(c) ==
    /\ svc # "exited"
    /\ conns[c] = "open"
    /\ faults > 0
    /\ faults' = faults - 1
    /\ conns' = [conns EXCEPT ![c] = "failing"]
    /\ isConnected' = FALSE
    /\ eventSince' = TRUE
    /\ cl' = ClientIdle
    /\ UNCHANGED <<chans, connection, channel, reconnectTimer, timers, consumers,
                   attempts, svc, closed, lastConnect>>
    /\ ConsumersFollow
    /\ UNCHANGED <<vars, ioVars, brokerVars>>

\* connection.on('close'): this.isConnected = false; this.scheduleReconnect()
ConnClose(c) ==
    /\ svc # "exited"
    /\ conns[c] \in {"open", "failing"}
    /\ conns[c] = "open" => faults > 0
    /\ faults' = IF conns[c] = "open" THEN faults - 1 ELSE faults
    /\ Collect([conns EXCEPT ![c] = "closed"],
               [chans EXCEPT ![c] = IF @ = "open" THEN "closed" ELSE @],
               connection, channel, attempts)
    /\ isConnected' = FALSE
    /\ scheduleReconnect
    /\ eventSince' = TRUE
    /\ cl' = [ClientIdle EXCEPT !.sched = Scheduled]
    /\ UNCHANGED <<consumers, svc, closed, lastConnect>>
    /\ ConsumersFollow
    /\ UNCHANGED <<vars, ioVars, brokerVars>>

\* channel.on('error') / channel.on('close'): logged only
ChannelClose(c) ==
    /\ svc # "exited"
    /\ chans[c] = "open"
    /\ faults > 0
    /\ faults' = faults - 1
    /\ chans' = [chans EXCEPT ![c] = "closed"]
    /\ cl' = ClientIdle
    /\ UNCHANGED <<conns, connection, channel, isConnected, reconnectTimer, timers,
                   consumers, attempts, svc, closed, lastConnect, eventSince>>
    /\ ConsumersFollow
    /\ UNCHANGED <<vars, ioVars, brokerVars>>

\* a timer callback that clears this.reconnectTimer and does not reconnect
TimerFire_NoConnect ==
    /\ svc # "exited"
    /\ timers > 0
    /\ timers' = timers - 1
    /\ reconnectTimer' = FALSE
    /\ cl' = ClientIdle
    /\ UNCHANGED <<conns, chans, connection, channel, isConnected, consumers, svc,
                   faults, closed, lastConnect, eventSince, attempts>>
    /\ ConsumersFollow
    /\ UNCHANGED <<vars, ioVars, brokerVars>>

\* the setTimeout callback: this.reconnectTimer = null; this.connect()
TimerFire ==
    /\ svc # "exited"
    /\ timers > 0
    /\ timers' = timers - 1
    /\ reconnectTimer' = FALSE
    /\ attempts' = Append(attempts, [owner |-> "timer", pc |-> "connect", conn |-> NoConn])
    /\ cl' = ClientIdle
    /\ UNCHANGED <<conns, chans, connection, channel, isConnected, consumers, svc,
                   faults, closed, lastConnect, eventSince>>
    /\ ConsumersFollow
    /\ UNCHANGED <<vars, ioVars, brokerVars>>

\* assertExchange, assertQueue, bindQueue, publish, sendToQueue, consume:
\* the guard, then the call on this.channel
ClientOp(op) ==
    /\ svc # "exited"
    /\ IF ChannelMissing
       THEN /\ cl' = [ClientIdle EXCEPT !.op = op, !.outcome = "Channel not initialized"]
            /\ UNCHANGED consumers
       ELSE /\ cl' = [ClientIdle EXCEPT
                         !.op = op,
                         !.outcome = IF ChannelState = "open" THEN "ok" ELSE "Channel closed",
                         !.reached = ChannelState]
            /\ consumers' = IF op = "consume" /\ ChannelState = "open"
                            THEN consumers \cup {paymentsProcess}
                            ELSE consumers
    /\ consumerChan' = IF op = "consume" /\ ~ChannelMissing /\ ChannelState = "open"
                       THEN [consumerChan EXCEPT ![paymentsProcess] = channel]
                       ELSE consumerChan
    /\ UNCHANGED <<conns, chans, connection, channel, isConnected, reconnectTimer,
                   timers, attempts, svc, faults, closed, lastConnect, eventSince>>
    /\ UNCHANGED <<vars, ioVars, brokerVars>>

\* start() after connect() returned: the three consume calls; a raising one
\* reaches the catch block and process.exit(1)
StartConsume ==
    /\ svc = "starting"
    /\ IF ChannelState = "open"
       THEN /\ svc' = "running"
            /\ consumers' = Queues
            /\ consumerChan' = [q \in Queues |-> channel]
            /\ cl' = [ClientIdle EXCEPT !.op = "consume", !.outcome = "ok", !.reached = "open"]
       ELSE /\ svc' = "exited"
            /\ UNCHANGED <<consumers, consumerChan>>
            /\ cl' = [ClientIdle EXCEPT
                         !.op = "consume",
                         !.outcome = IF ChannelMissing THEN "Channel not initialized"
                                     ELSE "Channel closed",
                         !.reached = IF ChannelMissing THEN "none" ELSE ChannelState]
    /\ UNCHANGED <<conns, chans, connection, channel, isConnected, reconnectTimer,
                   timers, attempts, faults, closed, lastConnect, eventSince>>
    /\ UNCHANGED <<vars, ioVars, brokerVars>>

\* how far close() gets: "cancel", "channel" or "connection" name the call
\* that raises, "done" means none does
CloseReach ==
    IF consumers # {} /\ channel # NoConn /\ ChannelState # "open" THEN "cancel"
    ELSE IF channel # NoConn /\ ChannelState # "open" THEN "channel"
    ELSE IF connection # NoConn /\ conns[connection] # "open" THEN "connection"
    ELSE "done"

\* close(): clear the timer, cancel the consumers, close channel and
\* connection, this.isConnected = false; an exception skips the rest.  The
\* connection's 'close' event runs its handler inside connection.close().
CloseCall ==
    /\ svc # "exited"
    /\ ~closed
    /\ closed' = TRUE
    /\ eventSince' = TRUE
    /\ LET reach == CloseReach
           closesConn == reach = "done" /\ connection # NoConn
       IN  /\ consumers' = IF channel # NoConn /\ ChannelState = "open"
                           THEN {} ELSE consumers
           /\ Collect(IF closesConn
                      THEN [conns EXCEPT ![connection] = "closed"] ELSE conns,
                      [c \in ConnIds |->
                          IF chans[c] = "open"
                             /\ \/ c = channel
                                \/ closesConn /\ c = connection
                          THEN "closed" ELSE chans[c]],
                      connection, channel, attempts)
           /\ isConnected' = IF reach = "done" THEN FALSE ELSE isConnected
           /\ reconnectTimer' = closesConn
           /\ timers' = (IF reconnectTimer THEN timers - 1 ELSE timers)
                        + (IF closesConn THEN 1 ELSE 0)
           /\ cl' = [ClientIdle EXCEPT !.op = "close", !.outcome = reach,
                                       !.sched = IF closesConn THEN "armed" ELSE "none"]
    /\ UNCHANGED <<svc, faults, lastConnect>>
    /\ ConsumersFollow
    /\ UNCHANGED <<vars, ioVars, brokerVars>>

\* the supervisor: what start(), the timer, the broker and close() do
ClientNext ==
    \/ ConnectCall
    \/ \E i \in 1 .. Len(attempts) : AmqpConnectOk(i)
    \/ \E i \in 1 .. Len(attempts) : AmqpConnectFail(i)
    \/ \E i \in 1 .. Len(attempts) : CreateChannelOk(i)
    \/ \E i \in 1 .. Len(attempts) : CreateChannelFail(i)
    \/ \E i \in 1 .. Len(attempts) : PrefetchOk(i)
    \/ \E i \in 1 .. Len(attempts) : PrefetchFail(i)
    \/ \E c \in ConnIds : ConnError(c)
    \/ \E c \in ConnIds : ConnClose(c)
    \/ \E c \in ConnIds : ChannelClose(c)
    \/ TimerFire
    \/ StartConsume
    \/ CloseCall

\* the supervisor together with callers of the client's operations
OpsNext ==
    \/ ClientNext
    \/ \E op \in ClientOps : ClientOp(op)

----------------------------------------------------------------------------
(* RabbitMQClient.publish / sendToQueue on an established channel *)

\* publish and sendToQueue calls made in one run
MaxCalls == 2

Calls == 1 .. MaxCalls

\* consumer tags the broker hands out in one run
MaxTags == 2

Tags == 1 .. MaxTags

\* this.consumers.get(queue) is undefined
NoTag == 0

\* the queues consumers are registered on
IOQueues == {paymentsProcess, paymentsDead}

PubIdle == [st |-> "idle", kind |-> "none", handed |-> 0, waited |-> FALSE]

TagUnused == [st |-> "unused", queue |-> "none", noAck |-> FALSE]

IOIdle == [op |-> "none", call |-> 0, accepted |-> FALSE, fullBefore |-> FALSE,
           handed |-> FALSE, queue |-> "none", tag |-> NoTag, noAck |-> FALSE,
           redelivered |-> FALSE, invoked |-> FALSE, acks |-> 0, nacks |-> 0,
           requeue |-> FALSE, escaped |-> FALSE, brokerCall |-> FALSE,
           raised |-> FALSE, result |-> "none"]

IOInit ==
    /\ ioChan = "open"
    /\ bufFull = FALSE
    /\ pubs = [k \in Calls |-> PubIdle]
    /\ tags = [t \in Tags |-> TagUnused]
    /\ registry = [q \in IOQueues |-> NoTag]
    /\ handling = [t \in Tags |-> <<>>]
    /\ io = IOIdle

\* the call returns at once whatever the channel answered
AwaitDrain_Skips(accepted) == "resolved"

\* if (!published) await new Promise((resolve) => this.channel.once('drain', resolve))
AwaitDrain(accepted) == IF accepted THEN "resolved" ELSE "waiting"

\* the channel sends only the messages whose write it answered with true
Written_OnlyAccepted(w, k, accepted) == IF accepted THEN Append(w, k) ELSE w

\* this.channel.publish / this.channel.sendToQueue: the channel takes the
\* message behind those it already holds, whatever it answers
Written(w, k, accepted) == Append(w, k)

\* publish / sendToQueue past the guard: the message is handed to the channel,
\* whose write answers false while its buffer is full; on a closed channel the
\* call raises
PublishCall(k, kind) ==
    /\ pubs[k].st = "idle"
    /\ IF ioChan # "open"
       THEN /\ pubs' = [pubs EXCEPT ![k] = [PubIdle EXCEPT !.st = "raised", !.kind = kind]]
            /\ io' = [IOIdle EXCEPT !.op = kind, !.call = k, !.fullBefore = bufFull,
                                    !.raised = TRUE]
            /\ UNCHANGED <<bufFull, wire>>
       ELSE \E accepted \in BOOLEAN :
            /\ bufFull => ~accepted
            /\ pubs' = [pubs EXCEPT ![k] = [st |-> AwaitDrain(accepted), kind |-> kind,
                                            handed |-> 1, waited |-> ~accepted]]
            /\ bufFull' = ~accepted
            /\ wire' = Written(wire, k, accepted)
            /\ io' = [IOIdle EXCEPT !.op = kind, !.call = k, !.accepted = accepted,
                                    !.fullBefore = bufFull, !.handed = TRUE]
    /\ called' = Append(called, k)
    /\ UNCHANGED <<ioChan, tags, registry, handling>>
    /\ UNCHANGED <<sent, exchanges, amqpQueues, bindings, decl>>
    /\ UNCHANGED <<vars, clientVars>>

\* the channel emits 'drain': every listener registered with once() runs
Drain ==
    /\ ioChan = "open"
    /\ bufFull
    /\ bufFull' = FALSE
    /\ pubs' = [k \in Calls |->
                  IF pubs[k].st = "waiting" THEN [pubs[k] EXCEPT !.st = "resolved"]
                  ELSE pubs[k]]
    /\ io' = [IOIdle EXCEPT !.op = "drain"]
    /\ UNCHANGED <<ioChan, tags, registry, handling>>
    /\ UNCHANGED <<vars, clientVars, brokerVars>>

\* the channel is torn down: the broker forgets its consumers, handlers that
\* are running go on
ChannelDown ==
    /\ ioChan = "open"
    /\ ioChan' = "closed"
    /\ tags' = [t \in Tags |->
                  IF tags[t].st = "active" THEN [tags[t] EXCEPT !.st = "gone"]
                  ELSE tags[t]]
    /\ io' = [IOIdle EXCEPT !.op = "channelDown"]
    /\ UNCHANGED <<bufFull, pubs, registry, handling>>
    /\ UNCHANGED <<vars, clientVars, brokerVars>>

----------------------------------------------------------------------------
(* RabbitMQClient.consume / cancelConsumer and the delivery callback *)

\* callbacks of this client that run at the same time
MaxRunning == 2

RECURSIVE Running(_)
\* the number of running callbacks of the consumers in T
Running(T) == IF T = {} THEN 0
              ELSE LET t == CHOOSE u \in T : TRUE
                   IN  Len(handling[t]) + Running(T \ {t})

\* the smallest consumer tag not handed out yet
FreshTag == CHOOSE t \in Tags :
                tags[t].st = "unused" /\ \A u \in Tags : u < t => tags[u].st # "unused"

\* the consumers of queue q that are active at the broker
ActiveOn(q) == {t \in Tags : tags[t].st = "active" /\ tags[t].queue = q}

\* callbacks running for queue q, as <<consumer tag, position>>
RunningOn(q) ==
    {p \in Tags \X (1 .. MaxRunning) : tags[p[1]].queue = q /\ p[2] <= Len(handling[p[1]])}

\* consume(queue, handler, {noAck}): channel.consume, then this.consumers.set
ConsumeCall(q, noAck) ==
    /\ IF ioChan # "open"
       THEN /\ io' = [IOIdle EXCEPT !.op = "consume", !.queue = q, !.noAck = noAck,
                                    !.raised = TRUE]
            /\ UNCHANGED <<tags, registry>>
       ELSE /\ \E t \in Tags : tags[t].st = "unused"
            /\ LET t == FreshTag
               IN  /\ tags' = [tags EXCEPT ![t] = [st |-> "active", queue |-> q,
                                                   noAck |-> noAck]]
                   /\ registry' = [registry EXCEPT ![q] = t]
                   /\ io' = [IOIdle EXCEPT !.op = "consume", !.queue = q, !.tag = t,
                                           !.noAck = noAck, !.brokerCall = TRUE]
    /\ UNCHANGED <<ioChan, bufFull, pubs, handling>>
    /\ UNCHANGED <<vars, clientVars, brokerVars>>

\* cancelConsumer drops every entry of the registry
Unregister_All(reg, q) == [x \in IOQueues |-> NoTag]

\* this.consumers.delete(queue)
Unregister(reg, q) == [reg EXCEPT ![q] = NoTag]

\* cancelConsumer(queue): nothing without an entry; else channel.cancel and
\* this.consumers.delete, the entry staying when channel.cancel rejects
CancelConsumer(q) ==
    /\ IF registry[q] = NoTag
       THEN /\ io' = [IOIdle EXCEPT !.op = "cancelConsumer", !.queue = q]
            /\ UNCHANGED <<tags, registry>>
       ELSE IF ioChan # "open"
       THEN /\ io' = [IOIdle EXCEPT !.op = "cancelConsumer", !.queue = q,
                                    !.tag = registry[q], !.brokerCall = TRUE,
                                    !.raised = TRUE]
            /\ UNCHANGED <<tags, registry>>
       ELSE /\ tags' = [tags EXCEPT ![registry[q]].st = "cancelled"]
            /\ registry' = Unregister(registry, q)
            /\ io' = [IOIdle EXCEPT !.op = "cancelConsumer", !.queue = q,
                                    !.tag = registry[q], !.brokerCall = TRUE]
    /\ UNCHANGED <<ioChan, bufFull, pubs, handling>>
    /\ UNCHANGED <<vars, clientVars, brokerVars>>

\* close() as this channel sees it: cancelConsumer for every key of
\* this.consumers, then channel.close(); the first rejection ends it
CloseChannel ==
    /\ IF ioChan # "open"
       THEN /\ io' = [IOIdle EXCEPT !.op = "close", !.raised = TRUE]
            /\ UNCHANGED <<ioChan, tags, registry>>
       ELSE /\ ioChan' = "closed"
            /\ registry' = [q \in IOQueues |-> NoTag]
            /\ tags' = [t \in Tags |->
                          IF tags[t].st # "active" THEN tags[t]
                          ELSE IF registry[tags[t].queue] = t
                          THEN [tags[t] EXCEPT !.st = "cancelled"]
                          ELSE [tags[t] EXCEPT !.st = "gone"]]
            /\ io' = [IOIdle EXCEPT !.op = "close", !.brokerCall = TRUE]
    /\ UNCHANGED <<bufFull, pubs, handling>>
    /\ UNCHANGED <<vars, clientVars, brokerVars>>

\* the consumer acknowledges and rejects whatever was asked at registration
Acknowledges_Always(noAck) == TRUE

\* if (!defaultOptions.noAck)
Acknowledges(noAck) == ~noAck

\* the broker sends messages without waiting for acknowledgements
PrefetchAllows_Unlimited(t) == TRUE

\* channel.prefetch(1): the broker sends a consumer that acknowledges its
\* next message only when none of its messages is unacknowledged
PrefetchAllows(t) == tags[t].noAck \/ handling[t] = <<>>

\* the broker delivers a message to consumer t and the callback starts: an
\* unparsable body goes to the catch block at once, otherwise the handler is
\* invoked and the callback waits for it
Deliver(t, body, redelivered) ==
    /\ ioChan = "open"
    /\ tags[t].st = "active"
    /\ PrefetchAllows(t)
    /\ Running(Tags) < MaxRunning
    /\ LET msg == [redelivered |-> redelivered]
           base == [IOIdle EXCEPT !.op = "deliver", !.queue = tags[t].queue, !.tag = t,
                                  !.noAck = tags[t].noAck, !.redelivered = redelivered]
       IN  IF body = "unparsable"
           THEN /\ io' = [base EXCEPT !.result = "unparsable",
                              !.nacks = IF Acknowledges(tags[t].noAck) THEN 1 ELSE 0,
                              !.requeue = Acknowledges(tags[t].noAck) /\ NackRequeue(msg)]
                /\ UNCHANGED handling
           ELSE /\ io' = [base EXCEPT !.invoked = TRUE]
                /\ handling' = [handling EXCEPT ![t] = Append(@, msg)]
    /\ UNCHANGED <<ioChan, bufFull, pubs, tags, registry>>
    /\ UNCHANGED <<vars, clientVars, brokerVars>>

\* the broker cancels consumer t: the callback receives null, logs, returns
NullDelivery(t) ==
    /\ ioChan = "open"
    /\ tags[t].st = "active"
    /\ tags' = [tags EXCEPT ![t].st = "gone"]
    /\ io' = [IOIdle EXCEPT !.op = "nullDelivery", !.queue = tags[t].queue, !.tag = t,
                            !.noAck = tags[t].noAck]
    /\ UNCHANGED <<ioChan, bufFull, pubs, registry, handling>>
    /\ UNCHANGED <<vars, clientVars, brokerVars>>

\* the handler of the oldest running callback of consumer t returns or
\* throws: ack after a return, nack after a throw; on a channel that was torn
\* down ack and nack themselves throw, the nack from inside the catch block
Settle(t, ok) ==
    /\ handling[t] # <<>>
    /\ LET msg == Head(handling[t])
           acking == Acknowledges(tags[t].noAck)
           up == ioChan = "open"
       IN  io' = [IOIdle EXCEPT
                     !.op = "settle", !.queue = tags[t].queue, !.tag = t,
                     !.noAck = tags[t].noAck, !.redelivered = msg.redelivered,
                     !.invoked = TRUE,
                     !.result = IF ok THEN "ok" ELSE "threw",
                     !.acks = IF acking /\ ok /\ up THEN 1 ELSE 0,
                     !.nacks = IF acking /\ ~ok /\ up THEN 1 ELSE 0,
                     !.requeue = acking /\ ~ok /\ up /\ NackRequeue(msg),
                     !.escaped = acking /\ ~up]
    /\ handling' = [handling EXCEPT ![t] = Tail(@)]
    /\ UNCHANGED <<ioChan, bufFull, pubs, tags, registry>>
    /\ UNCHANGED <<vars, clientVars, brokerVars>>

ConsumeNext ==
    \/ \E q \in IOQueues, noAck \in BOOLEAN : ConsumeCall(q, noAck)
    \/ \E q \in IOQueues : CancelConsumer(q)
    \/ CloseChannel
    \/ \E t \in Tags, body \in {"json", "unparsable"}, r \in BOOLEAN : Deliver(t, body, r)
    \/ \E t \in Tags : NullDelivery(t)
    \/ \E t \in Tags, ok \in BOOLEAN : Settle(t, ok)
    \/ ChannelDown

PublishNext ==
    \/ \E k \in Calls, kind \in {"publish", "sendToQueue"} : PublishCall(k, kind)
    \/ Drain
    \/ ChannelDown

----------------------------------------------------------------------------
(* The message properties of publish / sendToQueue / publishWithHeaders *)

\* a key the object does not have
Absent == "absent"

OptionKeys == {"persistent", "contentType", "timestamp", "messageId", "headers"}

\* the options objects callers pass
CallerOptions ==
    [persistent : {Absent, "true", "false"}, contentType : {Absent, "text/plain"},
     timestamp : {Absent, "callerTime"}, messageId : {Absent, "callerId"},
     headers : {Absent, "optionHeaders"}]

\* the header maps callers pass to publishWithHeaders
CallerHeaders == {"tierHeaders", "regionHeaders"}

RoutingKeys == {"payment.process", "order.created"}

\* { ...a, ...b }: the keys of b replace those of a
Spread(a, b) == [k \in OptionKeys |-> IF b[k] # Absent THEN b[k] ELSE a[k]]

\* the defaults of publish and sendToQueue; generateMessageId() and
\* Date.now() as the values they produce for this call
MessageDefaults ==
    [persistent |-> "true", contentType |-> "application/json", timestamp |-> "now",
     messageId |-> "generated", headers |-> Absent]

\* the defaults replace what the caller passed
PublishOptions_DefaultsWin(options) == Spread(options, MessageDefaults)

\* publish: const defaultOptions = { persistent, contentType, timestamp, messageId, ...options }
PublishOptions(options) == Spread(MessageDefaults, options)

\* sendToQueue: const defaultOptions = { persistent, contentType, timestamp, messageId, ...options }
SendOptions(options) == Spread(MessageDefaults, options)

\* publishWithHeaders: { ...options, headers }
HeaderOptions(options, headers) == [options EXCEPT !.headers = headers]

SentNone == [kind |-> "none", target |-> "none", routingKey |-> "none",
             options |-> [k \in OptionKeys |-> Absent], headers |-> Absent,
             props |-> [k \in OptionKeys |-> Absent], returned |-> "none"]

\* publish(exchange, routingKey, message, options) called through `kind` with
\* the caller's own arguments `given` and `headers`: what goes to
\* this.channel.publish and what the call returns
publish(kind, routingKey, options, given, headers) ==
    LET props == PublishOptions(options)
    IN  /\ sent' = [kind |-> kind, target |-> "exchange", routingKey |-> routingKey,
                    options |-> given, headers |-> headers, props |-> props,
                    returned |-> props.messageId]
        /\ UNCHANGED <<exchanges, amqpQueues, bindings, decl, called, wire>>
        /\ UNCHANGED <<vars, clientVars, ioVars>>

PublishMessage(routingKey, options) ==
    publish("publish", routingKey, options, options, Absent)

\* publishWithHeaders(exchange, message, headers, options)
publishWithHeaders(headers, options) ==
    publish("publishWithHeaders", "", HeaderOptions(options, headers), options, headers)

\* sendToQueue(queue, message, options)
sendToQueue(options) ==
    LET props == SendOptions(options)
    IN  /\ sent' = [kind |-> "sendToQueue", target |-> "queue", routingKey |-> "none",
                    options |-> options, headers |-> Absent, props |-> props,
                    returned |-> props.messageId]
        /\ UNCHANGED <<exchanges, amqpQueues, bindings, decl, called, wire>>
        /\ UNCHANGED <<vars, clientVars, ioVars>>

MessageNext ==
    \/ \E rk \in RoutingKeys, o \in CallerOptions : PublishMessage(rk, o)
    \/ \E h \in CallerHeaders, o \in CallerOptions : publishWithHeaders(h, o)
    \/ \E o \in CallerOptions : sendToQueue(o)

----------------------------------------------------------------------------
(* assertExchange / assertQueue / bindQueue and the broker's entities *)

ExchangeNames == {"payments"}

ExchangeTypes == {"direct", "headers"}

QueueNames == {paymentsProcess, paymentsDead}

DeclareKeys == {"durable", "autoDelete"}

\* the options objects callers pass to assertExchange and assertQueue
DeclareOptions == [durable : {Absent, "true", "false"}, autoDelete : {Absent, "true", "false"}]

\* an entity the broker does not have
Undeclared == [declared |-> FALSE, type |-> "none", durable |-> "none", autoDelete |-> "none"]

Declared(type, o) ==
    [declared |-> TRUE, type |-> type, durable |-> o.durable, autoDelete |-> o.autoDelete]

DeclNone == [op |-> "none", name |-> "none", type |-> "none",
             options |-> [k \in DeclareKeys |-> Absent], asked |-> Undeclared,
             existed |-> FALSE, raised |-> FALSE]

\* durable: true, autoDelete: false
DeclareDefaults == [durable |-> "true", autoDelete |-> "false"]

\* the caller's options are not looked at
ExchangeOptions_Ignored(options) == DeclareDefaults

\* assertExchange: const defaultOptions = { durable: true, autoDelete: false, ...options }
ExchangeOptions(options) ==
    [k \in DeclareKeys |-> IF options[k] # Absent THEN options[k] ELSE DeclareDefaults[k]]

\* assertQueue: const defaultOptions = { durable: true, autoDelete: false, ...options }
QueueOptions(options) ==
    [k \in DeclareKeys |-> IF options[k] # Absent THEN options[k] ELSE DeclareDefaults[k]]

\* a declaration is accepted when the entity is new or was declared the same
\* way; otherwise the broker refuses it and the awaited call rejects
Accepted(held, asked) == ~held.declared \/ held = asked

\* assertExchange(exchange, type, options) on a live channel
assertExchange(x, type, options) ==
    LET asked == Declared(type, ExchangeOptions(options))
        ok == Accepted(exchanges[x], asked)
    IN  /\ exchanges' = IF ok THEN [exchanges EXCEPT ![x] = asked] ELSE exchanges
        /\ decl' = [op |-> "assertExchange", name |-> x, type |-> type,
                    options |-> options, asked |-> asked,
                    existed |-> exchanges[x].declared, raised |-> ~ok]
        /\ UNCHANGED <<sent, amqpQueues, bindings, called, wire>>
        /\ UNCHANGED <<vars, clientVars, ioVars>>

\* assertQueue(queue, options) on a live channel
assertQueue(q, options) ==
    LET asked == Declared("queue", QueueOptions(options))
        ok == Accepted(amqpQueues[q], asked)
    IN  /\ amqpQueues' = IF ok THEN [amqpQueues EXCEPT ![q] = asked] ELSE amqpQueues
        /\ decl' = [op |-> "assertQueue", name |-> q, type |-> "queue",
                    options |-> options, asked |-> asked,
                    existed |-> amqpQueues[q].declared, raised |-> ~ok]
        /\ UNCHANGED <<sent, exchanges, bindings, called, wire>>
        /\ UNCHANGED <<vars, clientVars, ioVars>>

\* bindQueue(queue, exchange, routingKey) on a live channel: the broker
\* refuses a binding between entities it does not have
bindQueue(q, x, routingKey) ==
    LET ok == amqpQueues[q].declared /\ exchanges[x].declared
    IN  /\ bindings' = IF ok THEN bindings \cup {<<q, x, routingKey>>} ELSE bindings
        /\ decl' = [op |-> "bindQueue", name |-> q, type |-> x,
                    options |-> [k \in DeclareKeys |-> Absent], asked |-> Undeclared,
                    existed |-> <<q, x, routingKey>> \in bindings, raised |-> ~ok]
        /\ UNCHANGED <<sent, exchanges, amqpQueues, called, wire>>
        /\ UNCHANGED <<vars, clientVars, ioVars>>

TopologyNext ==
    \/ \E x \in ExchangeNames, t \in ExchangeTypes, o \in DeclareOptions :
           assertExchange(x, t, o)
    \/ \E q \in QueueNames, o \in DeclareOptions : assertQueue(q, o)
    \/ \E q \in QueueNames, x \in ExchangeNames : bindQueue(q, x, "payment.process")

----------------------------------------------------------------------------
(* Initial state of the broker-side variables *)

BrokerInit ==
    /\ sent = SentNone
    /\ exchanges = [x \in ExchangeNames |-> Undeclared]
    /\ amqpQueues = [q \in QueueNames |-> Undeclared]
    /\ bindings = {}
    /\ decl = DeclNone
    /\ called = <<>>
    /\ wire = <<>>

allVars == <<vars, clientVars, ioVars, brokerVars>>

\* the payment engine; the client's own state is left as constructed
EngineInit == Init /\ ClientInit /\ IOInit /\ BrokerInit

Spec == EngineInit /\ [][Next]_allVars

\* the client and the service start; the payment queues are left empty
SupervisorInit ==
    Init /\ qProcess = <<>> /\ dlxTarget = paymentsRetry /\ ClientInit /\ IOInit
    /\ BrokerInit

SpecClient == SupervisorInit /\ [][ClientNext]_allVars

\* an awaited amqp.connect, createChannel or prefetch settles
AttemptStep ==
    \E i \in 1 .. Len(attempts) :
        \/ AmqpConnectOk(i) \/ AmqpConnectFail(i)
        \/ CreateChannelOk(i) \/ CreateChannelFail(i)
        \/ PrefetchOk(i) \/ PrefetchFail(i)

\* a connection that emitted 'error' emits 'close'
CloseAfterError == \E c \in ConnIds : conns[c] = "failing" /\ ConnClose(c)

\* the supervisor under the event loop: start() runs, armed timers fire,
\* awaited calls settle; the broker fails at most MaxFaults times
SpecClientFair ==
    /\ SpecClient
    /\ WF_allVars(ConnectCall)
    /\ WF_allVars(TimerFire)
    /\ WF_allVars(AttemptStep)
    /\ WF_allVars(CloseAfterError)

SpecOps == SupervisorInit /\ [][OpsNext]_allVars

\* callers of publish and sendToQueue on one established channel
SpecPublish == SupervisorInit /\ [][PublishNext]_allVars

\* the same callers on a channel that empties its write buffer: while the
\* channel is open and its buffer is full, 'drain' comes
SpecPublishFair == SpecPublish /\ WF_allVars(Drain)

\* consumers registered on one established channel and their deliveries
SpecConsume == SupervisorInit /\ [][ConsumeNext]_allVars

\* callers of publish, publishWithHeaders and sendToQueue with their options
SpecMessage == SupervisorInit /\ [][MessageNext]_allVars

\* callers declaring exchanges, queues and bindings on one established channel
SpecTopology == SupervisorInit /\ [][TopologyNext]_allVars

----------------------------------------------------------------------------
(* Vocabulary of the properties *)

Range(q) == {q[i] : i \in 1 .. Len(q)}

\* the messages held by the three payment queues
AllMsgs == Range(qProcess) \cup Range(qRetry) \cup Range(qDead)

\* no message of order o is left in any queue
NoCopy(o) == \A m \in AllMsgs : m.order # o

\* a work item sent by processOrder whose gateway call has failed every time
\* and that was never manually re-submitted
AlwaysFailing(o) == origin[o] = "fresh" /\ ~everOk[o] /\ ~manual[o]

LastOf(q) == q[Len(q)]

----------------------------------------------------------------------------
(* C1: for a work item that fails on every execution, the attempt count    *)
(* read by the Nth execution of processPayment is N-1, for N from 1 up to  *)
(* maxAttempts.                                                            *)
C1_NthExecutionReadsNMinus1 ==
    \A o \in Orders :
        AlwaysFailing(o) =>
            \A n \in 1 .. Len(seen[o]) : n <= MaxAttempts => seen[o][n] = n - 1

(* C2: a failure of processPayment with attempt < maxAttempts rejects the  *)
(* message and puts exactly one copy of the work item carrying attempt+1   *)
(* on payments.retry.                                                      *)
C2_FailureRepublishesIncremented ==
    [][ (last'.op = "processPayment" /\ last'.threw /\ last'.attempt < MaxAttempts)
          => /\ last'.nacked
             /\ qRetry' = Append(qRetry, Msg(last'.order, last'.attempt + 1, FALSE)) ]_vars

(* C3: a failure of processPayment with attempt >= maxAttempts (all its    *)
(* publishes accepted) records the item in failedPayments, publishes       *)
(* payment.failed and rejects the message without requeue, whatever the    *)
(* redelivered flag.                                                       *)
C3_DeadRejectsWithoutRequeue ==
    (last.op = "processPayment" /\ last.threw /\ ~last.pubThrew
        /\ last.attempt >= MaxAttempts)
      => /\ last.order \in DOMAIN failedPayments
         /\ "payment.failed" \in last.events
         /\ last.nacked
         /\ ~last.requeue

(* C4: once a work item has reached DEAD it is not handed to the            *)
(* payments.process handler again unless the manual retry endpoint          *)
(* re-submitted it.                                                         *)
C4_DeadIsTerminal ==
    [][ \A o \in Orders : (dead[o] /\ dead'[o]) => seen'[o] = seen[o] ]_vars

(* C5: a work item sent without header that always fails is executed at    *)
(* most maxAttempts+1 times, and once it has left the queues it is in      *)
(* failedPayments with retryCount = maxAttempts.                           *)
C5_BoundedRetryEndsDead ==
    \A o \in Orders :
        AlwaysFailing(o) =>
            /\ Len(seen[o]) <= MaxAttempts + 1
            /\ (seen[o] # <<>> /\ NoCopy(o))
                 => /\ o \in DOMAIN failedPayments
                    /\ failedPayments[o].retryCount = MaxAttempts

(* C6: a message that leaves payments.retry reappears at the tail of       *)
(* payments.process, for the same work item and with the count following   *)
(* the failed execution's; it is not consumed and dropped.                 *)
C6_NoRetryLost ==
    [][ (qRetry # <<>> /\ qRetry' = Tail(qRetry))
          => /\ Len(qProcess') = Len(qProcess) + 1
             /\ LastOf(qProcess').order = Head(qRetry).order
             /\ seen[Head(qRetry).order] # <<>>
             /\ RetryCount(LastOf(qProcess')) = LastOf(seen[Head(qRetry).order]) + 1 ]_vars

(* C7: once the gateway call of a work item has succeeded and the item is  *)
(* in payments, the message is acknowledged and the work item is not       *)
(* executed again, also when a follow-up publish fails.                    *)
C7_SucceededIsTerminal ==
    [][ /\ (last'.op = "processPayment" /\ last'.gw = "ok") => last'.acked
        /\ \A o \in DOMAIN payments : seen'[o] = seen[o] ]_vars

(* C8: no delivery, rejection, requeue, dead-lettering or expiry yields a  *)
(* message whose attempt count is below that of the message it stems from; *)
(* the only step that puts a lower count on a work item is the manual      *)
(* retry endpoint, and that count is 0.                                    *)
C8_CounterNonDecreasing ==
    [][ \A m2 \in AllMsgs' :
          \/ \E m1 \in AllMsgs :
                m1.order = m2.order /\ RetryCount(m1) <= RetryCount(m2)
          \/ /\ last'.op = "manualRetry" /\ last'.status = 200
             /\ m2.order = last'.order
             /\ m2.hdr = 0
          \/ /\ last'.op = "processOrder"
             /\ m2.order = last'.order
             /\ origin[m2.order] = "none" ]_vars

\* the manual retry endpoint has lowered the count of a work item that was
\* executed at maxAttempts, after a requeue kept that count
C8_Witness ==
    /\ last.op = "manualRetry" /\ last.status = 200
    /\ Len(seen[last.order]) >= 2
    /\ LastOf(seen[last.order]) >= MaxAttempts
    /\ \E m \in Range(qProcess) : m.order = last.order /\ m.hdr = 0

(* C9: every re-publish of a work item to payments.process other than the  *)
(* manual one carries the count of its previous execution plus one, and a  *)
(* first submission carries no header and is read as attempt 0.            *)
C9_RepublishAddsOne ==
    [][ /\ Len(qProcess') = Len(qProcess) + 1
          => LET m == LastOf(qProcess')
             IN  \/ last'.op = "processOrder" /\ m.hdr = NoHdr
                 \/ last'.op = "manualRetry"
                 \/ /\ seen[m.order] # <<>>
                    /\ RetryCount(m) = LastOf(seen[m.order]) + 1
        /\ \A o \in Orders :
             (origin[o] = "fresh" /\ seen[o] = <<>> /\ seen'[o] # <<>>)
               => seen'[o] = <<0>> ]_vars

(* C10: the manual retry endpoint, for an order in failedPayments, sends   *)
(* it to payments.process with x-retry-count 0 and removes it from         *)
(* failedPayments (or, when the send raises, sends and changes nothing);   *)
(* for an order not in failedPayments it answers 404, sends nothing and    *)
(* changes no store; and no other step removes a failedPayments entry.     *)
C10_ManualRetryOnly ==
    [][ /\ last'.op = "manualRetry"
          => LET o == last'.order
             IN  /\ UNCHANGED <<qRetry, qDead, payments>>
                 /\ IF o \in DOMAIN failedPayments
                    THEN \/ /\ last'.status = 200
                            /\ qProcess' = Append(qProcess, Msg(o, 0, FALSE))
                            /\ DOMAIN failedPayments' = (DOMAIN failedPayments) \ {o}
                            /\ \A x \in DOMAIN failedPayments' :
                                  failedPayments'[x] = failedPayments[x]
                         \/ /\ last'.threw
                            /\ UNCHANGED <<qProcess, failedPayments>>
                    ELSE /\ last'.status = 404
                         /\ last'.sent = {}
                         /\ UNCHANGED <<qProcess, failedPayments>>
        /\ \A o \in DOMAIN failedPayments :
             o \notin DOMAIN failedPayments'
               => last'.op = "manualRetry" /\ last'.order = o /\ last'.status = 200 ]_vars

\* a DEAD work item was manually re-submitted: it is back on payments.process
\* with count 0 and out of failedPayments, while another order stays recorded
C10_Witness ==
    /\ last.op = "manualRetry" /\ last.status = 200
    /\ last.order \notin DOMAIN failedPayments
    /\ DOMAIN failedPayments # {}
    /\ qProcess # <<>>
    /\ LastOf(qProcess) = Msg(last.order, 0, FALSE)

----------------------------------------------------------------------------
\* the consumer callbacks start() registers
Handlers == {"processPayment", "retryConsumer", "handleDeadLetter"}

\* the queue a callback was registered on
ConsumedQueue(op) ==
    IF op = "processPayment" THEN qProcess
    ELSE IF op = "retryConsumer" THEN qRetry
    ELSE qDead

(* C11: two-strikes law of consume. A handler failure on a first delivery
   (redelivered = false) is rejected with requeue = true and the message is
   back at the head of its queue flagged redelivered; a failure on a
   redelivery is rejected with requeue = false and the message leaves the
   queue. Only the message just requeued carries the flag, so the queue
   hands one message to the handler at most twice. *)
C11_TwoStrikes ==
    /\ \A i \in 2 .. Len(qProcess) : ~qProcess[i].redelivered
    /\ \A m \in Range(qRetry) \cup Range(qDead) : ~m.redelivered
    /\ (last.op \in Handlers /\ last.threw) =>
          /\ last.nacked /\ ~last.acked
          /\ last.requeue = ~last.redelivered
          /\ last.requeue =>
                /\ qProcess # <<>>
                /\ Head(qProcess).order = last.order
                /\ Head(qProcess).redelivered
          /\ ~last.requeue => \A m \in Range(ConsumedQueue(last.op)) : ~m.redelivered

\* a redelivered message failed again and was rejected without requeue
C11_Witness ==
    /\ last.op = "processPayment"
    /\ last.threw /\ last.redelivered
    /\ last.nacked /\ ~last.requeue

(* C12: when the handler returns normally (noAck = false) the message is
   acknowledged, it is not rejected, and it is not handed out again: it is
   gone from its queue, where no message is left flagged redelivered. *)
C12_SuccessAcksOnce ==
    (last.op \in Handlers /\ ~last.threw) =>
        /\ last.acked
        /\ ~last.nacked /\ ~last.requeue
        /\ \A m \in Range(ConsumedQueue(last.op)) : ~m.redelivered

\* processPayment returned normally on a redelivered message
C12_Witness ==
    /\ last.op = "processPayment"
    /\ ~last.threw /\ last.redelivered
    /\ last.acked

(* C13: at any time at most one reconnect timer is pending, and it is the one
   this.reconnectTimer holds; a scheduleReconnect call made while a timer is
   pending leaves timer and flag as they were. *)
C13_OneReconnectTimer ==
    [][ /\ timers' <= 1
        /\ reconnectTimer' <=> timers' = 1
        /\ cl'.sched = "pending" =>
              reconnectTimer /\ UNCHANGED <<reconnectTimer, timers>> ]_allVars

\* scheduleReconnect was just called with a timer pending
C13_Witness == cl.sched = "pending" /\ reconnectTimer /\ timers = 1

\* connect() calls waiting for their timer or running
PendingOrRunning == timers + Len(attempts)

(* C14: no duplicate reconnect attempt: at most one connect() attempt is
   pending (its timer armed) or in progress at any time. *)
C14_NoDuplicateAttempt == PendingOrRunning <= 1

\* a connection-level failure has been seen and the client is not connected
Disconnected == ~isConnected /\ (lastConnect # "none" \/ eventSince)

\* some connection has emitted 'error' and not yet 'close'
ErrorOnly == \E c \in ConnIds : conns[c] = "failing"

(* C15 as stated: after a connection 'error' event, a connection 'close'
   event or a failed connect(), until the client is connected again or
   explicitly closed, a reconnect timer is pending or a connect attempt is
   in progress. *)
C15_ScheduledOnAnyFailure ==
    (Disconnected /\ ~closed) => PendingOrRunning > 0

(* C15 amended: the same holds after a connection 'close' event or a failed
   connect(); a connection 'error' event alone schedules nothing, the
   reconnection is scheduled by the 'close' event that follows it. *)
C15_ScheduledOnCloseOrFailedConnect ==
    (Disconnected /\ ~closed /\ ~ErrorOnly) => PendingOrRunning > 0

\* an established connection has just closed and its handler armed the timer
C15_Witness ==
    /\ cl.sched = "armed"
    /\ lastConnect = "ok" /\ eventSince
    /\ ~isConnected /\ ~closed /\ ~ErrorOnly
    /\ timers = 1 /\ attempts = <<>>

(* C16: reconnection is retried without a maximum count: once the broker has
   stopped failing, a client that is not explicitly closed (in a process
   that is still running) becomes healthy and stays healthy. *)
C16_EventuallyHealthy ==
    <>[](isHealthy \/ closed \/ svc = "exited")

\* the failures are used up and the client is healthy on a live channel of
\* the current connection
C16_Witness ==
    /\ faults = 0
    /\ isHealthy /\ ~closed
    /\ lastConnect = "ok"
    /\ connection = channel
    /\ conns[connection] = "open" /\ ChannelState = "open"

(* C17: connection failures are never fatal to the process: whatever the
   broker does, the service process does not exit. *)
C17_ProcessKeepsRunning == svc # "exited"

(* C18: live-channel invariant: an operation reaches the broker channel only
   if the channel is live, and whenever the channel is not live (after a
   connection drop or close(), before the next successful connect) the
   operation fails fast with 'Channel not initialized'. *)
C18_LiveChannel ==
    cl.op \in ClientOps =>
        /\ cl.reached \in {"none", "open"}
        /\ ChannelState # "open" => cl.outcome = "Channel not initialized"

(* C19: before any connect() has created a channel, each of assertExchange,
   assertQueue, bindQueue, publish, sendToQueue and consume raises
   'Channel not initialized', reaches no channel, and leaves the consumer
   registry, the connection flags, the timer and the queues unchanged. *)
C19_NotInitialized ==
    [][ (cl'.op \in ClientOps /\ channel = NoConn) =>
            /\ cl'.outcome = "Channel not initialized"
            /\ cl'.reached = "none"
            /\ UNCHANGED <<conns, chans, connection, channel, isConnected,
                           reconnectTimer, timers, consumers, attempts>>
            /\ UNCHANGED vars ]_allVars

\* publish was called while the first connect() had not yet created a channel
C19_Witness ==
    /\ cl.op = "publish"
    /\ cl.outcome = "Channel not initialized"
    /\ channel = NoConn
    /\ attempts # <<>>

(* C20: isHealthy() is true exactly when the most recent connect() attempt
   succeeded and no connection 'error', connection 'close' or close() has
   occurred since. *)
C20_HealthyIffConnected ==
    isHealthy <=> (lastConnect = "ok" /\ ~eventSince)

(* C21: when close() returns no reconnect timer is pending: the connection
   'close' event caused by the explicit close has scheduled nothing, so the
   client does not reconnect on its own. *)
C21_NoReconnectAfterClose == cl.op = "close" => (~reconnectTimer /\ timers = 0)

(* C22: after close() returns the consumer registry is empty, also when one
   of the cancellations or closes failed. *)
C22_RegistryEmptyAfterClose == cl.op = "close" => consumers = {}

(* C23: connect() never raises to its caller: it returns true only after
   amqp.connect, createChannel and prefetch(1) have all settled, and the
   client is reported connected by that return and by nothing earlier; it
   returns false, with a reconnect timer pending, when one of them fails. *)
C23_ConnectReturns ==
    [][ /\ Len(attempts') < Len(attempts) =>
              \E i \in 1 .. Len(attempts) :
                  /\ attempts' = RemoveAt(attempts, i)
                  /\ attempts[i].owner = "start" => svc' = "starting"
                  /\ \/ /\ lastConnect' = "ok"
                        /\ attempts[i].pc = "prefetch"
                        /\ isConnected'
                     \/ /\ lastConnect' = "failed"
                        /\ reconnectTimer' /\ timers' = 1
                        /\ isConnected' = isConnected
        /\ (isConnected' /\ ~isConnected) =>
              /\ Len(attempts') < Len(attempts)
              /\ lastConnect' = "ok" ]_allVars

\* createChannel was rejected: connect() returned false and armed the timer
C23_Witness ==
    /\ lastConnect = "failed"
    /\ cl.sched = "armed"
    /\ svc = "starting"
    /\ channel = NoConn /\ connection # NoConn
    /\ reconnectTimer /\ ~isConnected

(* C24: backpressure: a publish / sendToQueue call whose message the channel
   did not accept waits, and resolves only in the step that observes
   'drain'; its message was handed to the channel once, in the call, and is
   neither handed over again nor taken back. *)
C24_WaitsForDrain ==
    [][ \A k \in Calls :
          /\ (io'.call = k /\ io'.handed /\ ~io'.accepted) => pubs'[k].st = "waiting"
          /\ (pubs[k].st = "waiting" /\ pubs'[k].st # "waiting") =>
                bufFull /\ ~bufFull' /\ io'.op = "drain" /\ pubs'[k].st = "resolved"
          /\ pubs'[k].st \in {"waiting", "resolved"} => pubs'[k].handed = 1 ]_allVars

\* a call that had to wait has been resolved by 'drain'
C24_Witness ==
    /\ io.op = "drain"
    /\ \E k \in Calls : pubs[k].st = "resolved" /\ pubs[k].waited /\ pubs[k].handed = 1

(* C25: while the channel has reported its buffer full and no 'drain' has
   been observed, no publish or sendToQueue call hands a message to the
   channel. *)
C25_SuspendedWhileFull ==
    (io.op \in {"publish", "sendToQueue"} /\ io.handed) => ~io.fullBefore

(* C26: a failure of the handler or of parsing the body never leaves the
   consumer callback: with noAck=false it ends in exactly one nack that
   requeues a first delivery and only that, the handler is not invoked for an
   unparsable body, and an ack or nack that fails because the channel was
   torn down fails silently. *)
C26_FailuresContained ==
    io.op \in {"deliver", "settle"} =>
        /\ ~io.escaped
        /\ (io.result = "unparsable" => ~io.invoked)
        /\ (io.result \in {"threw", "unparsable"} /\ ~io.noAck /\ ioChan = "open" =>
                io.nacks = 1 /\ io.acks = 0 /\ io.requeue = ~io.redelivered)

(* C27: a consumer registered with noAck=true is neither acked nor nacked,
   whether its handler returns or throws or the body does not parse; a null
   delivery invokes no handler and issues neither ack nor nack. *)
C27_NoAckNeverSettles ==
    /\ (io.op \in {"deliver", "settle"} /\ io.noAck =>
            io.acks = 0 /\ io.nacks = 0 /\ ~io.requeue /\ ~io.escaped)
    /\ (io.op = "nullDelivery" => ~io.invoked /\ io.acks = 0 /\ io.nacks = 0)

C27_Witness ==
    io.op = "settle" /\ io.noAck /\ io.result = "threw" /\ io.acks = 0 /\ io.nacks = 0

(* C28: over every sequence of consume, cancelConsumer and close the client
   holds at most one active broker consumer per queue, and the registry maps
   a queue to a tag exactly when that queue has an active consumer. *)
C28_RegistryMatchesBroker ==
    \A q \in IOQueues :
        /\ Cardinality(ActiveOn(q)) <= 1
        /\ registry[q] # NoTag <=> ActiveOn(q) # {}
        /\ registry[q] # NoTag => registry[q] \in ActiveOn(q)

(* C29: on a live channel cancelConsumer(queue) without a registration makes
   no broker call, changes nothing and raises nothing; with a registration it
   cancels that consumer at the broker and removes exactly that entry. *)
C29_CancelConsumer ==
    [][ \A q \in IOQueues :
            io'.op = "cancelConsumer" /\ io'.queue = q /\ ioChan = "open" =>
                IF registry[q] = NoTag
                THEN /\ ~io'.brokerCall /\ ~io'.raised
                     /\ UNCHANGED <<registry, tags, handling, ioChan>>
                ELSE /\ io'.brokerCall /\ ~io'.raised /\ io'.tag = registry[q]
                     /\ tags'[registry[q]].st = "cancelled"
                     /\ \A t \in Tags \ {registry[q]} : tags'[t] = tags[t]
                     /\ registry'[q] = NoTag
                     /\ \A x \in IOQueues \ {q} : registry'[x] = registry[x] ]_allVars

C29_Witness ==
    /\ io.op = "cancelConsumer" /\ io.brokerCall /\ ~io.raised
    /\ registry[io.queue] = NoTag
    /\ \E x \in IOQueues \ {io.queue} : registry[x] # NoTag

(* C30 as stated: the handler invocations for one queue on one client are
   strictly sequential. *)
C30_SequentialPerQueue ==
    \A q \in IOQueues : Cardinality(RunningOn(q)) <= 1

(* C30: the handler invocations of one consumer registered with noAck=false
   are strictly sequential: its next invocation starts only after the
   previous delivery was acked or nacked. *)
C30_SequentialPerConsumer ==
    \A t \in Tags : ~tags[t].noAck => Len(handling[t]) <= 1

C30_Witness ==
    /\ io.op = "deliver" /\ io.invoked /\ ~io.noAck
    /\ Len(handling[io.tag]) = 1
    /\ \E u \in Tags \ {io.tag} : handling[u] # <<>>

(* C31: publish and sendToQueue return the resolved message identifier, the
   caller's options.messageId when there is one and the generated id
   otherwise; persistent=true, the JSON content type and the timestamp apply
   unless the options override them; publishWithHeaders publishes with the
   empty routing key and the caller's header map, whatever options.headers
   says. *)
C31_ResolvedProperties ==
    sent.kind # "none" =>
        /\ sent.returned = sent.props.messageId
        /\ sent.returned = IF sent.options.messageId # Absent
                           THEN sent.options.messageId ELSE "generated"
        /\ sent.props.persistent = IF sent.options.persistent # Absent
                                   THEN sent.options.persistent ELSE "true"
        /\ sent.props.contentType = IF sent.options.contentType # Absent
                                    THEN sent.options.contentType ELSE "application/json"
        /\ sent.props.timestamp = IF sent.options.timestamp # Absent
                                  THEN sent.options.timestamp ELSE "now"
        /\ sent.kind = "publishWithHeaders" =>
               sent.routingKey = "" /\ sent.props.headers = sent.headers
        /\ sent.kind # "publishWithHeaders" => sent.props.headers = sent.options.headers

C31_Witness ==
    /\ sent.kind = "publishWithHeaders"
    /\ sent.options.headers = "optionHeaders" /\ sent.props.headers = "tierHeaders"
    /\ sent.options.messageId = "callerId" /\ sent.returned = "callerId"
    /\ sent.options.persistent = "false" /\ sent.props.persistent = "false"

\* the calls of `called` that handed their message to the channel
HandedInOrder == SelectSeq(called, LAMBDA k : pubs[k].handed = 1)

(* C32: the messages published through one channel reach the broker in the
   order of the publish calls, also when some of the calls were refused by
   the full buffer and waited for drain. *)
C32_PublishOrder == wire = HandedInOrder

C32_Witness ==
    /\ Len(wire) = MaxCalls
    /\ pubs[wire[1]].waited
    /\ \E k \in Calls : pubs[k].st = "resolved" /\ ~pubs[k].waited

\* the step is a declaration that repeats what the broker already holds
Redeclares ==
    \/ /\ decl'.op = "assertExchange"
       /\ exchanges[decl'.name] = decl'.asked
    \/ /\ decl'.op = "assertQueue"
       /\ amqpQueues[decl'.name] = decl'.asked
    \/ /\ decl'.op = "bindQueue"
       /\ \E k \in {"payment.process"} : <<decl'.name, decl'.type, k>> \in bindings

(* C33: assertExchange and assertQueue declare with durable=true and
   autoDelete=false unless the caller's options say otherwise, and repeating
   an identical assertExchange, assertQueue or bindQueue raises no error and
   leaves the exchanges, queues and bindings as they were. *)
C33_IdempotentDurableDefaults ==
    [][ /\ decl'.op \in {"assertExchange", "assertQueue"} =>
              /\ decl'.asked.durable = IF decl'.options.durable # Absent
                                       THEN decl'.options.durable ELSE "true"
              /\ decl'.asked.autoDelete = IF decl'.options.autoDelete # Absent
                                          THEN decl'.options.autoDelete ELSE "false"
        /\ Redeclares =>
              ~decl'.raised /\ UNCHANGED <<exchanges, amqpQueues, bindings>> ]_allVars

C33_Witness ==
    /\ decl.op = "assertExchange" /\ decl.existed /\ ~decl.raised
    /\ decl.options.durable = "false" /\ decl.options.autoDelete = Absent
    /\ exchanges[decl.name] = Declared(decl.type, [durable |-> "false", autoDelete |-> "false"])
    /\ bindings # {}

(* C34: once an automatic reconnect has succeeded after a connection drop,
   every queue of the consumer registry has an active consumer again, on the
   current channel. *)
C34_ConsumptionResumes ==
    (svc = "running" /\ lastConnect = "ok" /\ isHealthy /\ ChannelState = "open"
        /\ conns[connection] = "open" /\ attempts = <<>>
        /\ \A c \in ConnIds \ {connection} : conns[c] # "open") =>
        \A q \in consumers : consumerChan[q] = channel

\* the connections the client holds open at the broker
OpenConns == {c \in ConnIds : conns[c] = "open"}

\* connection c, which is not this.connection, emits 'error' or 'close'
\* while this.connection is live
SupersededEvent(c) ==
    /\ c # connection
    /\ conns[c] \in {"open", "failing"}
    /\ conns'[c] \in {"failing", "closed", "unused"}
    /\ conns'[c] # conns[c]
    /\ connection # NoConn
    /\ conns[connection] = "open"

(* C35: an 'error' or 'close' event of a connection that connect() has
   replaced neither makes the client unhealthy nor schedules a reconnect while
   the newest connection is live, and the client never holds more than one
   open broker connection. *)
C35_SupersededIgnored ==
    [][ /\ \A c \in ConnIds :
               SupersededEvent(c) =>
                   /\ isConnected' = isConnected
                   /\ reconnectTimer' = reconnectTimer
                   /\ timers' = timers
        /\ Cardinality(OpenConns') <= 1 ]_allVars

(* C36: every publish / sendToQueue call completes in the end, by resolving
   or by failing: a call that waits for 'drain' does not wait forever when
   the channel closes before the 'drain' event. *)
C36_CallsComplete ==
    \A k \in Calls : (pubs[k].st = "waiting") ~> (pubs[k].st \in {"resolved", "raised"})

(* C37: when close() has returned isHealthy() is false, also when a consumer
   cancellation, the channel close or the connection close failed inside
   close(). *)
C37_UnhealthyAfterClose == cl.op = "close" => ~isHealthy

(* C38: no orderId is in payments and in failedPayments at the same time,
   over every interleaving of processPayment, handleDeadLetter and the manual
   retry endpoint. *)
C38_StoresExclusive == DOMAIN payments \cap DOMAIN failedPayments = {}

\* the messages of order o that the three payment queues hold
Copies(o) ==
    Cardinality({i \in 1 .. Len(qProcess) : qProcess[i].order = o})
    + Cardinality({i \in 1 .. Len(qRetry) : qRetry[i].order = o})
    + Cardinality({i \in 1 .. Len(qDead) : qDead[i].order = o})

(* C39: at any time the queues payments.process, payments.retry and
   payments.dead together hold at most one live copy of a logical payment
   work item. *)
C39_OneLiveCopy == \A o \in Orders : Copies(o) <= 1

(* C40: an entry that processPayment stored in failedPayments for a DEAD work
   item keeps its retryCount and its error until manual resubmission removes
   it; the dead-letter consumer does not overwrite them. *)
C40_DeadRecordKept ==
    [][ \A o \in DOMAIN failedPayments :
            (failedPayments[o].error /\ o \in DOMAIN failedPayments') =>
                failedPayments'[o] = failedPayments[o] ]_allVars

============================================================================
